---- MODULE Spec2Model ----
(***************************************************************************)
(* Model of src/bot.py: a Reddit canned-response bot.                      *)
(*                                                                         *)
(*   CannedResponse / ReplyGenerator : regex matching of a comment text,   *)
(*       first matching rule wins, postfix appended.                       *)
(*   Bot : the polling loop (inbox, then comment scraping per subreddit),  *)
(*       the bounded ledger of replied comment / submission ids and its    *)
(*       JSON file, the reply call.                                        *)
(*                                                                         *)
(* Texts are sequences of characters.  A regular expression is modelled by *)
(* the literal fragment of the regex language: a sequence of characters    *)
(* that re.search looks for at every offset, with re.I folding case.       *)
(* Optional values are sequences of length <= 1: None is <<>>.             *)
(* The message of an exception is a sequence of words; a time.sleep is a   *)
(* state of run() of its own, with the seconds it was called with.         *)
(***************************************************************************)
EXTENDS Integers, Sequences, FiniteSets, TLC

----------------------------------------------------------------------------
(* Bounds of the model *)

\* longest comment text that is enumerated
MaxTextLen == 2
\* most rules in a rule list that is enumerated
MaxRules == 2

----------------------------------------------------------------------------
(* Program constants *)

\* bot.py:23
MAX_COMMENTS_PER_SUBMISSION == 2
\* bot.py:31, the default max_chars (sys.maxsize, here the largest TLC integer)
sys_maxsize == 2147483647

None == <<>>
Some(x) == <<x>>

----------------------------------------------------------------------------
(* Texts and regular expressions *)

Chars == {"a", "A", "b"}

\* re.I: case folding of one character
Lower(ch) == IF ch = "A" THEN "a" ELSE IF ch = "B" THEN "b" ELSE ch

\* all texts of length <= n
RECURSIVE TextsUpTo(_)
TextsUpTo(n) ==
    IF n = 0 THEN {<<>>}
    ELSE LET shorter == TextsUpTo(n - 1)
         IN  shorter \cup {Append(t, ch) : t \in {s \in shorter : Len(s) = n - 1}, ch \in Chars}

Texts == TextsUpTo(MaxTextLen)

\* the pattern matches the text at offset k (1-based), ignoring case
MatchesAt(pattern, text, k) ==
    /\ k + Len(pattern) - 1 <= Len(text)
    /\ \A j \in 1..Len(pattern) : Lower(text[k + j - 1]) = Lower(pattern[j])

\* re.search(pattern, text, re.I) is not None
re_search(pattern, text) ==
    \E k \in 1..(Len(text) + 1) : MatchesAt(pattern, text, k)

\* re.findall(pattern, text, re.I): the offsets of the matches found
re_findall(pattern, text) ==
    {k \in 1..(Len(text) + 1) : MatchesAt(pattern, text, k)}

----------------------------------------------------------------------------
(* CannedResponse and ReplyGenerator *)

\* CannedResponse.get_response with the length gate off by one (>= for >)
CannedResponse_get_response_LengthOffByOne(rule, comment) ==
    IF \E i \in 1..Len(rule.comment_regexes) : re_search(rule.comment_regexes[i], comment)
    THEN IF \E i \in 1..Len(rule.ignore_regexes) :
                re_findall(rule.ignore_regexes[i], comment) # {}
         THEN None
         ELSE IF Len(comment) >= rule.max_chars
              THEN None
              ELSE Some(rule.response)
    ELSE None

\* CannedResponse.get_response, bot.py:40-52
CannedResponse_get_response(rule, comment) ==
    IF \E i \in 1..Len(rule.comment_regexes) : re_search(rule.comment_regexes[i], comment)
    THEN IF \E i \in 1..Len(rule.ignore_regexes) :
                re_findall(rule.ignore_regexes[i], comment) # {}
         THEN None
         ELSE IF Len(comment) > rule.max_chars
              THEN None
              ELSE Some(rule.response)
    ELSE None

\* the loop of ReplyGenerator.get_response without its early return: the last rule
\* that answers wins
RECURSIVE GetResponseFrom_LastWins(_, _, _, _)
GetResponseFrom_LastWins(rules, pfix, comment, i) ==
    IF i > Len(rules) THEN None
    ELSE LET response == CannedResponse_get_response(rules[i], comment)
             later == GetResponseFrom_LastWins(rules, pfix, comment, i + 1)
         IN  IF later # None THEN later
             ELSE IF response # None THEN Some(response[1] \o pfix) ELSE None

\* the loop of ReplyGenerator.get_response from rule i on, bot.py:64-68
RECURSIVE GetResponseFrom(_, _, _, _)
GetResponseFrom(rules, pfix, comment, i) ==
    IF i > Len(rules) THEN None
    ELSE LET response == CannedResponse_get_response(rules[i], comment)
         IN  IF response # None
             THEN Some(response[1] \o pfix)
             ELSE GetResponseFrom(rules, pfix, comment, i + 1)

\* ReplyGenerator.get_response, bot.py:63-68
ReplyGenerator_get_response(rules, pfix, comment) ==
    GetResponseFrom(rules, pfix, comment, 1)

\* ReplyGenerator.get_comment_mention_response, bot.py:71-74
get_comment_mention_response(mention_reply, pfix, comment) ==
    IF mention_reply # None /\ mention_reply[1] # ""
    THEN Some(mention_reply[1] \o pfix)
    ELSE None

\* ReplyGenerator.__init__, bot.py:61: the union of the rules' search keys
ReplyGenerator_search_keys(rules) ==
    UNION {{rules[i].search_keys[j] : j \in 1..Len(rules[i].search_keys)} : i \in 1..Len(rules)}

----------------------------------------------------------------------------
(* The world the bot runs in: comments, inbox items, configuration *)

\* length of the ledger deques (bot.py:104 and 106 give maxlen=1000), scaled down
maxlen == 3
\* bot.py:117 (25 in the source), scaled down
max_messages_per_request == 2
\* bot.py:134 (500 in the source), scaled down
max_comments_per_request == 2
\* how often the process is killed and started again
MaxRestarts == 1
\* latest creation time of a comment
MaxTime == 4
\* latest time a restarted process takes as its first query time
MaxStart == 1
\* the calls of comment.reply for one comment are counted up to this number
MaxCalls == 4
\* longest wait, in minutes, a failure message asks for
MaxMinutes == 2

CommentOrder == <<"c1", "c2", "c3", "c4", "c5", "c6", "c7">>
CommentIds == {CommentOrder[n] : n \in 1..Len(CommentOrder)}
MessageIds == {"m1"}

bot_username == "bot"

\* comment.submission.id
submission_id(c) ==
    CASE c \in {"c1", "c2", "c3"} -> "s1"
      [] c \in {"c4", "c5", "c6"} -> "s2"
      [] OTHER -> "s3"

\* comment.author: None for a deleted account
author(c) ==
    CASE c = "c6" -> Some(bot_username)
      [] c = "c7" -> None
      [] OTHER -> Some("user")

\* comment.body
body(c) == IF c = "c5" THEN <<"b">> ELSE <<"a", "b">>

\* comment.created_utc
created_utc(c) ==
    CASE c = "c1" -> 1
      [] c \in {"c2", "c3"} -> 2
      [] c \in {"c4", "c5"} -> 3
      [] OTHER -> MaxTime

\* comment.subreddit.display_name
subreddit_of(c) == IF c \in {"c1", "c2", "c3", "c4"} THEN "sub1" ELSE "sub2"

\* what the inbox can deliver: comments that mention the bot, and private messages
MentionIds == {"c5", "c6"}
InboxItems == MentionIds \cup MessageIds
\* the order in which they arrive
InboxOrder == <<"c5", "m1", "c6">>

\* isinstance(msg, praw.models.Comment), bot.py:121
isComment(msg) == msg \in CommentIds

\* the configuration the bot runs with (bot_config, bot.py:276-278 and 291)
BotRules ==
    << [search_keys |-> << <<"b">> >>, comment_regexes |-> << <<"A">> >>,
        response |-> "r1", ignore_regexes |-> <<>>, max_chars |-> sys_maxsize] >>
\* the same rule without search keys: the combined query is empty
BotRulesNoKeys ==
    << [search_keys |-> <<>>, comment_regexes |-> << <<"A">> >>,
        response |-> "r1", ignore_regexes |-> <<>>, max_chars |-> sys_maxsize] >>
BotConfigs == {BotRules, BotRulesNoKeys}
BotPostfix == "-bot"
BotMentionReply == Some("hi")
subreddits == <<"all", "sub1">>

\* str(e) of the exceptions the calls raise, as sequences of words
RateLimited(n) == <<"try", "again", "in", ToString(n), "minutes">>
Messages ==
    {<<"timeout">>, <<"try", "again", "in", "few", "minutes">>,
     <<"try", "again", "in", "1", "minute">>}
    \cup {RateLimited(n) : n \in 1..MaxMinutes}
    \cup {<<"ratelimit">> \o RateLimited(n) \o <<"please">> : n \in 1..MaxMinutes}

----------------------------------------------------------------------------
VARIABLES
    canned_responses,       \* ReplyGenerator.canned_responses
    postfix,                \* ReplyGenerator.postfix
    test_comment,           \* the text last evaluated by the start-up test
    test_reply,             \* what ReplyGenerator.get_response gave for it
    canned_reply,           \* what CannedResponse.get_response of canned_index gave for it
    canned_index,           \* the rule evaluated on its own
    dry_run,                \* Bot.dry_run
    replied_to_comments,    \* Bot.replied_to_comments (deque)
    commented_submissions,  \* Bot.commented_submissions (deque)
    commented_items_file,   \* the JSON file: None when missing, else Some(document)
    next_query_time_utc,    \* SubredditInfo.next_query_time_utc, by index in subreddits
    unread,                 \* the inbox's unread items, newest first
    arrived,                \* inbox items delivered so far
    pc,                     \* where run() is
    all_unread_messages,    \* local of _check_and_handle_inbox
    comments,               \* local of _scrape_and_handle_comments
    sub,                    \* index of the subreddit the for loop is at
    idx,                    \* index of the item the inner for loop is at
    handled_all_messages,   \* local of run
    handled_all_comments,   \* local of run / _scrape_and_handle_comments
    reply_calls,            \* history: how often comment.reply was invoked, by comment id
    recorded,               \* history: the comments _append_commented_items ran for, in order
    failed,                 \* history: comments whose reply call raised in this process
    handled,                \* history: <<subreddit index, comment>> passed to
                            \* _handle_scraped_comment in this process
    batch_sizes,            \* history: length of the batch of each subreddit in this iteration
    first_query_time_utc,   \* local of Bot.__init__: the first query time of this process
    e,                      \* the exception caught by run: None, or Some(message)
    sleep_s,                \* seconds of the time.sleep run() is in, 0 when it is not
    restarts                \* how often the process was started again

configVars == <<canned_responses, postfix>>
testVars == <<test_comment, test_reply, canned_reply, canned_index>>
ledgerVars == <<replied_to_comments, commented_submissions, commented_items_file>>
inboxVars == <<unread, arrived>>
localVars == <<all_unread_messages, comments, sub, idx, handled_all_messages,
               handled_all_comments, batch_sizes>>
histVars == <<reply_calls, recorded, failed, handled>>
cursorVars == <<next_query_time_utc, first_query_time_utc>>
excVars == <<e, sleep_s>>
\* what a step that handles one item leaves alone of the locals
pageVars == <<all_unread_messages, comments, handled_all_messages, handled_all_comments,
              batch_sizes>>
vars == <<canned_responses, postfix, test_comment, test_reply, canned_reply, canned_index,
          dry_run, replied_to_comments, commented_submissions, commented_items_file,
          next_query_time_utc, unread, arrived, pc, all_unread_messages, comments, sub, idx,
          handled_all_messages, handled_all_comments, reply_calls, recorded, failed,
          handled, batch_sizes, first_query_time_utc, e, sleep_s, restarts>>

----------------------------------------------------------------------------
(* The ledger and its file *)

\* a deque without maxlen: nothing ever leaves it
deque_Unbounded(items) == items

\* collections.deque(items, maxlen=maxlen): the last maxlen items, bot.py:103-106
deque(items) ==
    IF Len(items) > maxlen
    THEN SubSeq(items, Len(items) - maxlen + 1, Len(items))
    ELSE items

\* deque.append, bot.py:109-110: the oldest item leaves a full deque
deque_append(d, x) == deque(Append(d, x))

\* dict.get(key, default), bot.py:104 and 106
dict_get(d, key, default) == IF key \in DOMAIN d THEN d[key] ELSE default

\* json.load of the file, or {} when os.path.isfile is false, bot.py:99-102
load_commented_items(file) ==
    IF file # None THEN file[1] ELSE [k \in {} |-> <<>>]

\* _load_commented_items, bot.py:96-106: the two deques built from the file
loaded_replied_to_comments(file) ==
    deque(dict_get(load_commented_items(file), "replied_to_comments", <<>>))

loaded_commented_submissions(file) ==
    deque(dict_get(load_commented_items(file), "commented_submissions", <<>>))

\* json.dumps with the two lists under each other's key
dump_commented_items_Swapped(replied, commented) ==
    Some([replied_to_comments |-> commented, commented_submissions |-> replied])

\* json.dumps of the two deques, bot.py:112-113
dump_commented_items(replied, commented) ==
    Some([replied_to_comments |-> replied, commented_submissions |-> commented])

\* deque.count(x), bot.py:189
count(d, x) == Cardinality({k \in 1..Len(d) : d[k] = x})

\* x in deque, bot.py:186
contains(d, x) == \E k \in 1..Len(d) : d[k] = x

\* _can_reply_to_comment without the test of replied_to_comments
can_reply_to_comment_NoDedup(comment, replied, commented) ==
    IF author(comment) = None \/ author(comment) = Some(bot_username)
    THEN FALSE
    ELSE IF count(commented, submission_id(comment)) >= MAX_COMMENTS_PER_SUBMISSION
         THEN FALSE
         ELSE TRUE

\* _can_reply_to_comment with the cap off by one (> for >=)
can_reply_to_comment_CapOffByOne(comment, replied, commented) ==
    IF author(comment) = None \/ author(comment) = Some(bot_username)
    THEN FALSE
    ELSE IF contains(replied, comment)
         THEN FALSE
         ELSE IF count(commented, submission_id(comment)) > MAX_COMMENTS_PER_SUBMISSION
              THEN FALSE
              ELSE TRUE

\* _can_reply_to_comment without the test of the author
can_reply_to_comment_NoAuthorCheck(comment, replied, commented) ==
    IF contains(replied, comment)
    THEN FALSE
    ELSE IF count(commented, submission_id(comment)) >= MAX_COMMENTS_PER_SUBMISSION
         THEN FALSE
         ELSE TRUE

\* _can_reply_to_comment, bot.py:181-193
can_reply_to_comment(comment, replied, commented) ==
    IF author(comment) = None \/ author(comment) = Some(bot_username)
    THEN FALSE
    ELSE IF contains(replied, comment)
         THEN FALSE
         ELSE IF count(commented, submission_id(comment)) >= MAX_COMMENTS_PER_SUBMISSION
              THEN FALSE
              ELSE TRUE

\* "if response", bot.py:165 and 172: None and the empty string are falsy
truthy(response) == response # None /\ response[1] # ""

----------------------------------------------------------------------------
(* The comment search and the inbox *)

\* Bot.search_query, bot.py:93: '|'.join of the search keys, empty when there are none
search_query(rules) == ReplyGenerator_search_keys(rules)

\* the comments the search of bot.py:139-146 selects: q, subreddit, after
search_matches(q, name, after) ==
    {c \in CommentIds :
        /\ \E key \in q : re_search(key, body(c))
        /\ name = "all" \/ subreddit_of(c) = name
        /\ created_utc(c) > after}

\* sort="asc", sort_type="created_utc": ascending by creation time
\* (comments of one creation time in the order of CommentOrder)
position(c) == CHOOSE n \in 1..Len(CommentOrder) : CommentOrder[n] = c

earliest(S) ==
    CHOOSE c \in S : \A d \in S \ {c} :
        \/ created_utc(c) < created_utc(d)
        \/ created_utc(c) = created_utc(d) /\ position(c) < position(d)

RECURSIVE ascending(_, _)
ascending(S, limit) ==
    IF S = {} \/ limit = 0 THEN <<>>
    ELSE LET c == earliest(S) IN <<c>> \o ascending(S \ {c}, limit - 1)

\* pushshift.search_comments(...), bot.py:138-146
search_comments(q, name, after, limit) == ascending(search_matches(q, name, after), limit)

\* praw.inbox.unread(limit), bot.py:118: the newest unread items
inbox_unread(limit) ==
    IF Len(unread) > limit THEN SubSeq(unread, 1, limit) ELSE unread

\* [msg for msg in all_unread_messages if isinstance(msg, Comment)], bot.py:120-121
SelectComments(msgs) == SelectSeq(msgs, isComment)

\* mark_read that is given the comment mentions only
mark_read_MentionsOnly(items) ==
    SelectSeq(unread, LAMBDA m : \A k \in 1..Len(items) : items[k] # m \/ ~isComment(m))

\* praw.inbox.mark_read(items), bot.py:128
mark_read(items) ==
    SelectSeq(unread, LAMBDA m : \A k \in 1..Len(items) : items[k] # m)

\* str(e), bot.py:218: the message of the caught exception
str(exc) == exc[1]

\* the word is the text of an integer, as {:d} wants it
is_int(word) == \E n \in 0..MaxMinutes : ToString(n) = word
int(word) == CHOOSE n \in 0..MaxMinutes : ToString(n) = word

\* 'try again in {:d} minutes' is found in the message from word k on
format_at(message, k) ==
    /\ k + 4 <= Len(message)
    /\ SubSeq(message, k, k + 2) = <<"try", "again", "in">>
    /\ is_int(message[k + 3])
    /\ message[k + 4] = "minutes"

\* parse.search('try again in {:d} minutes', message), bot.py:218: the first
\* place the format is found at gives the result, whose [0] is the integer
parse_search(message) ==
    IF \E k \in 1..Len(message) : format_at(message, k)
    THEN LET k == CHOOSE j \in 1..Len(message) :
                      /\ format_at(message, j)
                      /\ \A h \in 1..(j - 1) : ~format_at(message, h)
         IN  Some(int(message[k + 3]))
    ELSE None

----------------------------------------------------------------------------
(* Bot.__init__ and the steps of Bot.run *)

\* the time the process starts at: Init starts before every comment, a restart
\* (with --dry-run=N reaching back) at one of StartTimes
StartTimes == 0..MaxStart

NoCalls == [c \in CommentIds |-> 0]

\* no batch fetched yet in this iteration
NoBatches == [s \in 1..Len(subreddits) |-> 0]

\* the locals of run() and of the two step functions before an iteration
\* (their values of the iteration before are dead at the top of the loop)
LocalsAtTop ==
    /\ all_unread_messages' = <<>>
    /\ comments' = <<>>
    /\ sub' = 1
    /\ idx' = 1
    /\ handled_all_messages' = TRUE
    /\ handled_all_comments' = TRUE
    /\ batch_sizes' = NoBatches

\* Bot.__init__, bot.py:83-94, and main, bot.py:289-292
Init ==
    /\ canned_responses \in BotConfigs
    /\ postfix = BotPostfix
    /\ test_comment = <<>>
    /\ test_reply = None
    /\ canned_reply = None
    /\ canned_index = 1
    /\ dry_run \in BOOLEAN
    /\ commented_items_file = None
    /\ replied_to_comments = loaded_replied_to_comments(None)
    /\ commented_submissions = loaded_commented_submissions(None)
    /\ first_query_time_utc = 0
    /\ next_query_time_utc = [s \in 1..Len(subreddits) |-> first_query_time_utc]
    /\ unread = <<>>
    /\ arrived = {}
    /\ pc = "run"
    /\ all_unread_messages = <<>>
    /\ comments = <<>>
    /\ sub = 1
    /\ idx = 1
    /\ handled_all_messages = TRUE
    /\ handled_all_comments = TRUE
    /\ e = None
    /\ sleep_s = 0
    /\ reply_calls = NoCalls
    /\ recorded = <<>>
    /\ failed = {}
    /\ handled = {}
    /\ batch_sizes = NoBatches
    /\ restarts = 0

\* a mention or a private message arrives in the inbox (seen by the bot at its next fetch)
Receive(m) ==
    /\ pc = "run"
    /\ m \notin arrived
    /\ \A n \in 1..Len(InboxOrder) :
          InboxOrder[n] = m => \A k \in 1..(n - 1) : InboxOrder[k] \in arrived
    /\ unread' = <<m>> \o unread
    /\ arrived' = arrived \cup {m}
    /\ UNCHANGED <<configVars, testVars, dry_run, ledgerVars, cursorVars, pc,
                   localVars, excVars, histVars, restarts>>

\* an exception leaves the try block, bot.py:216: e is bound to it, and the
\* locals of the step functions are gone with their frames
Raise ==
    /\ pc' = "except"
    /\ \E msg \in Messages : e' = Some(msg)
    /\ LocalsAtTop

\* _append_commented_items that leaves the file as it is
append_commented_items_Unsaved(comment) ==
    /\ replied_to_comments' = deque_append(replied_to_comments, comment)
    /\ commented_submissions' = deque_append(commented_submissions, submission_id(comment))
    /\ commented_items_file' = commented_items_file
    /\ recorded' = Append(recorded, comment)

\* _append_commented_items, bot.py:108-114
append_commented_items(comment) ==
    /\ replied_to_comments' = deque_append(replied_to_comments, comment)
    /\ commented_submissions' = deque_append(commented_submissions, submission_id(comment))
    /\ commented_items_file' = dump_commented_items(replied_to_comments', commented_submissions')
    /\ recorded' = Append(recorded, comment)

\* the mentions of the page, bot.py:120-121
mentions == SelectComments(all_unread_messages)

\* after the item at idx: the next item of the for loop, or what follows the loop
NextMention ==
    IF idx < Len(mentions)
    THEN pc' = "mention" /\ idx' = idx + 1
    ELSE pc' = "mark_read" /\ idx' = 1

NextComment ==
    IF idx < Len(comments)
    THEN pc' = "comment" /\ idx' = idx + 1 /\ sub' = sub
    ELSE /\ idx' = 1
         /\ IF sub < Len(subreddits)
            THEN pc' = "scrape" /\ sub' = sub + 1
            ELSE pc' = "else" /\ sub' = sub

\* _check_and_handle_inbox, bot.py:116-118: the unread page is fetched
InboxUnread ==
    /\ pc = "run"
    /\ all_unread_messages' = inbox_unread(max_messages_per_request)
    /\ idx' = 1
    /\ pc' = IF SelectComments(all_unread_messages') # <<>> THEN "mention" ELSE "mark_read"
    /\ UNCHANGED <<configVars, testVars, dry_run, ledgerVars, cursorVars, inboxVars,
                   comments, sub, handled_all_messages, handled_all_comments, batch_sizes,
                   excVars, histVars, restarts>>

\* praw.inbox.unread of bot.py:118 raises
InboxUnreadRaises ==
    /\ pc = "run"
    /\ Raise
    /\ UNCHANGED <<configVars, testVars, dry_run, ledgerVars, cursorVars, inboxVars,
                   sleep_s, histVars, restarts>>

CheckAndHandleInbox == InboxUnread \/ InboxUnreadRaises

\* _handle_comment_mention, bot.py:170-175, up to the record of _send_reply, bot.py:197
HandleCommentMention ==
    /\ pc = "mention"
    /\ LET comment == mentions[idx]
           response == get_comment_mention_response(BotMentionReply, postfix, body(comment))
       IN  IF truthy(response)
              /\ can_reply_to_comment(comment, replied_to_comments, commented_submissions)
           THEN /\ append_commented_items(comment)
                /\ pc' = "send_mention"
                /\ idx' = idx
           ELSE /\ NextMention
                /\ UNCHANGED <<ledgerVars, recorded>>
    /\ UNCHANGED <<configVars, testVars, dry_run, cursorVars, inboxVars,
                   all_unread_messages, comments, sub, handled_all_messages,
                   handled_all_comments, batch_sizes, excVars, reply_calls, failed, handled,
                   restarts>>

\* the reply is posted whatever dry_run is
posts_reply_Always(dry) == TRUE

\* "if not self.dry_run", bot.py:199
posts_reply(dry) == ~dry

\* one more call of comment.reply, counted up to MaxCalls
one_more(n) == IF n < MaxCalls THEN n + 1 ELSE n

\* _send_reply that takes the record back when the reply call raises
SendReply_RollbackOnFailure ==
    /\ pc \in {"send_mention", "send_comment"}
    /\ LET comment == IF pc = "send_mention" THEN mentions[idx] ELSE comments[idx]
           Return == IF pc = "send_mention" THEN NextMention /\ sub' = sub ELSE NextComment
       IN  IF posts_reply(dry_run)
           THEN /\ reply_calls' = [reply_calls EXCEPT ![comment] = one_more(@)]
                /\ \/ Return /\ failed' = failed /\ UNCHANGED <<ledgerVars, e, pageVars>>
                   \/ /\ Raise /\ failed' = failed \cup {comment}
                      /\ replied_to_comments' =
                            SubSeq(replied_to_comments, 1, Len(replied_to_comments) - 1)
                      /\ commented_submissions' =
                            SubSeq(commented_submissions, 1, Len(commented_submissions) - 1)
                      /\ commented_items_file' =
                            dump_commented_items(replied_to_comments', commented_submissions')
           ELSE Return /\ UNCHANGED <<reply_calls, failed, ledgerVars, e, pageVars>>
    /\ UNCHANGED <<configVars, testVars, dry_run, cursorVars, inboxVars, sleep_s, recorded,
                   handled, restarts>>

\* _send_reply that calls comment.reply before it records: nothing is recorded
\* when the call raises
SendReply_RecordAfterReply ==
    /\ pc \in {"send_mention", "send_comment"}
    /\ LET comment == IF pc = "send_mention" THEN mentions[idx] ELSE comments[idx]
           Return == IF pc = "send_mention" THEN NextMention /\ sub' = sub ELSE NextComment
       IN  IF posts_reply(dry_run)
           THEN /\ reply_calls' = [reply_calls EXCEPT ![comment] = one_more(@)]
                /\ \/ Return /\ failed' = failed
                      /\ UNCHANGED <<ledgerVars, e, recorded, pageVars>>
                   \/ /\ Raise /\ failed' = failed \cup {comment}
                      /\ replied_to_comments' =
                            SubSeq(replied_to_comments, 1, Len(replied_to_comments) - 1)
                      /\ commented_submissions' =
                            SubSeq(commented_submissions, 1, Len(commented_submissions) - 1)
                      /\ commented_items_file' =
                            dump_commented_items(replied_to_comments', commented_submissions')
                      /\ recorded' = SubSeq(recorded, 1, Len(recorded) - 1)
           ELSE Return /\ UNCHANGED <<reply_calls, failed, ledgerVars, e, recorded, pageVars>>
    /\ UNCHANGED <<configVars, testVars, dry_run, cursorVars, inboxVars, sleep_s, handled,
                   restarts>>

\* _send_reply after the record, bot.py:199-201: comment.reply(response) returns or raises
SendReply ==
    /\ pc \in {"send_mention", "send_comment"}
    /\ LET comment == IF pc = "send_mention" THEN mentions[idx] ELSE comments[idx]
           Return == IF pc = "send_mention" THEN NextMention /\ sub' = sub ELSE NextComment
       IN  IF posts_reply(dry_run)
           THEN /\ reply_calls' = [reply_calls EXCEPT ![comment] = one_more(@)]
                /\ \/ Return /\ failed' = failed /\ UNCHANGED <<e, pageVars>>
                   \/ Raise /\ failed' = failed \cup {comment}
           ELSE Return /\ UNCHANGED <<reply_calls, failed, e, pageVars>>
    /\ UNCHANGED <<configVars, testVars, dry_run, ledgerVars, cursorVars, inboxVars, sleep_s,
                   recorded, handled, restarts>>

\* the comments are scraped whatever the query is
query_given_Always(q) == TRUE

\* "if self.search_query", bot.py:214
query_given(q) == q # {}

\* _check_and_handle_inbox, bot.py:124-131, and run, bot.py:212-214
MarkReadReturns ==
    /\ pc = "mark_read"
    /\ unread' = mark_read(all_unread_messages)
    /\ handled_all_messages' = (Len(all_unread_messages) < max_messages_per_request)
    /\ handled_all_comments' = TRUE
    /\ pc' = IF query_given(search_query(canned_responses)) THEN "scrape" ELSE "else"
    /\ UNCHANGED <<configVars, testVars, dry_run, ledgerVars, cursorVars, arrived,
                   all_unread_messages, comments, sub, idx, batch_sizes, excVars, histVars,
                   restarts>>

\* praw.inbox.mark_read of bot.py:128 raises
MarkReadRaises ==
    /\ pc = "mark_read"
    /\ Raise
    /\ UNCHANGED <<configVars, testVars, dry_run, ledgerVars, cursorVars, inboxVars,
                   sleep_s, histVars, restarts>>

MarkRead == MarkReadReturns \/ MarkReadRaises

\* the flag that tells only whether the batch just fetched was a full page
all_handled_LastBatchOnly(flag, found) == Len(found) < max_comments_per_request

\* handled_all_comments after a batch, bot.py:152-153
all_handled(flag, found) ==
    IF Len(found) = max_comments_per_request THEN FALSE ELSE flag

\* _scrape_and_handle_comments, bot.py:137-156: the search for one subreddit
SearchComments ==
    /\ pc = "scrape"
    /\ LET found == search_comments(search_query(canned_responses), subreddits[sub],
                                     next_query_time_utc[sub], max_comments_per_request)
       IN  /\ comments' = found
           /\ idx' = 1
           /\ batch_sizes' = [batch_sizes EXCEPT ![sub] = Len(found)]
           /\ IF found # <<>>
              THEN /\ handled_all_comments' = all_handled(handled_all_comments, found)
                   /\ next_query_time_utc' =
                         [next_query_time_utc EXCEPT ![sub] = created_utc(found[Len(found)])]
                   /\ pc' = "comment"
                   /\ sub' = sub
              ELSE /\ UNCHANGED <<handled_all_comments, next_query_time_utc>>
                   /\ IF sub < Len(subreddits)
                      THEN pc' = "scrape" /\ sub' = sub + 1
                      ELSE pc' = "else" /\ sub' = sub
    /\ UNCHANGED <<configVars, testVars, dry_run, ledgerVars, first_query_time_utc, inboxVars,
                   all_unread_messages, handled_all_messages, excVars, histVars, restarts>>

\* pushshift.search_comments of bot.py:138 raises
SearchCommentsRaises ==
    /\ pc = "scrape"
    /\ Raise
    /\ UNCHANGED <<configVars, testVars, dry_run, ledgerVars, cursorVars, inboxVars,
                   sleep_s, histVars, restarts>>

ScrapeComments == SearchComments \/ SearchCommentsRaises

\* _handle_scraped_comment that records the comment it has a response for before
\* it asks _can_reply_to_comment
HandleScrapedComment_RecordsFirst ==
    /\ pc = "comment"
    /\ LET comment == comments[idx]
           response == ReplyGenerator_get_response(canned_responses, postfix, body(comment))
       IN  /\ handled' = handled \cup {<<sub, comment>>}
           /\ IF truthy(response)
              THEN /\ append_commented_items(comment)
                   /\ IF can_reply_to_comment(comment, replied_to_comments,
                                              commented_submissions)
                      THEN pc' = "send_comment" /\ UNCHANGED <<idx, sub>>
                      ELSE NextComment
              ELSE /\ NextComment
                   /\ UNCHANGED <<ledgerVars, recorded>>
    /\ UNCHANGED <<configVars, testVars, dry_run, cursorVars, inboxVars,
                   all_unread_messages, comments, handled_all_messages,
                   handled_all_comments, batch_sizes, excVars, reply_calls, failed, restarts>>

\* _handle_scraped_comment, bot.py:163-168, up to the record of _send_reply, bot.py:197
HandleScrapedComment ==
    /\ pc = "comment"
    /\ LET comment == comments[idx]
           response == ReplyGenerator_get_response(canned_responses, postfix, body(comment))
       IN  /\ handled' = handled \cup {<<sub, comment>>}
           /\ IF truthy(response)
                 /\ can_reply_to_comment(comment, replied_to_comments, commented_submissions)
              THEN /\ append_commented_items(comment)
                   /\ pc' = "send_comment"
                   /\ UNCHANGED <<idx, sub>>
              ELSE /\ NextComment
                   /\ UNCHANGED <<ledgerVars, recorded>>
    /\ UNCHANGED <<configVars, testVars, dry_run, cursorVars, inboxVars,
                   all_unread_messages, comments, handled_all_messages,
                   handled_all_comments, batch_sizes, excVars, reply_calls, failed, restarts>>

\* the sleep that takes the minutes for seconds
sleep_seconds_NoFactor(minutes) == minutes

\* ratelimit[0] * 60, bot.py:221
sleep_seconds(minutes) == minutes * 60

\* the handler that starts the subreddits over from the first query time
HandleException_ResetsCursors ==
    /\ pc = "except"
    /\ LET ratelimit == parse_search(str(e))
       IN  IF ratelimit # None
           THEN pc' = "ratelimit_sleep" /\ sleep_s' = sleep_seconds(ratelimit[1])
           ELSE pc' = "run" /\ sleep_s' = 0
    /\ e' = None
    /\ next_query_time_utc' = [s \in 1..Len(subreddits) |-> first_query_time_utc]
    /\ UNCHANGED <<configVars, testVars, dry_run, ledgerVars, first_query_time_utc, inboxVars,
                   localVars, histVars, restarts>>

\* the handler that lets the exception go on: run() ends
HandleException_Reraises ==
    /\ pc = "except"
    /\ pc' = "crashed"
    /\ UNCHANGED <<configVars, testVars, dry_run, ledgerVars, cursorVars, inboxVars,
                   localVars, excVars, histVars, restarts>>

\* run, bot.py:216-221: the failure is logged; the loop sleeps when the message
\* tells for how long, and goes on
HandleException ==
    /\ pc = "except"
    /\ LET ratelimit == parse_search(str(e))
       IN  IF ratelimit # None
           THEN pc' = "ratelimit_sleep" /\ sleep_s' = sleep_seconds(ratelimit[1])
           ELSE pc' = "run" /\ sleep_s' = 0
    /\ e' = None
    /\ UNCHANGED <<configVars, testVars, dry_run, ledgerVars, cursorVars, inboxVars,
                   localVars, histVars, restarts>>

\* run, bot.py:222-225: the iteration ended without a failure
EndIteration ==
    /\ pc = "else"
    /\ IF handled_all_messages /\ handled_all_comments
       THEN pc' = "sleep" /\ sleep_s' = 30
       ELSE pc' = "run" /\ sleep_s' = 0
    /\ LocalsAtTop
    /\ UNCHANGED <<configVars, testVars, dry_run, ledgerVars, cursorVars, inboxVars,
                   e, histVars, restarts>>

\* time.sleep of bot.py:221 or bot.py:225 returns: the next iteration
Wake ==
    /\ pc \in {"sleep", "ratelimit_sleep"}
    /\ pc' = "run"
    /\ sleep_s' = 0
    /\ UNCHANGED <<configVars, testVars, dry_run, ledgerVars, cursorVars, inboxVars,
                   localVars, e, histVars, restarts>>

\* the process is killed at any point and started again: Bot.__init__, bot.py:83-94
Restart ==
    /\ restarts < MaxRestarts
    /\ restarts' = restarts + 1
    /\ replied_to_comments' = loaded_replied_to_comments(commented_items_file)
    /\ commented_submissions' = loaded_commented_submissions(commented_items_file)
    /\ first_query_time_utc' \in StartTimes
    /\ next_query_time_utc' = [s \in 1..Len(subreddits) |-> first_query_time_utc']
    /\ pc' = "run"
    /\ LocalsAtTop
    /\ e' = None
    /\ sleep_s' = 0
    /\ failed' = {}
    /\ handled' = {}
    /\ UNCHANGED <<configVars, testVars, dry_run, commented_items_file, inboxVars,
                   reply_calls, recorded>>

\* what the process itself does
Step ==
    \/ CheckAndHandleInbox
    \/ HandleCommentMention
    \/ SendReply
    \/ MarkRead
    \/ ScrapeComments
    \/ HandleScrapedComment
    \/ HandleException
    \/ EndIteration
    \/ Wake

Next ==
    \/ \E m \in InboxItems : Receive(m)
    \/ Step
    \/ Restart

Spec == Init /\ [][Next]_vars

\* the process is not killed
NextRunning ==
    \/ \E m \in InboxItems : Receive(m)
    \/ Step

\* the process is never suspended for good: a statement that can be executed is
\* executed, a call returns or raises, a sleep ends
FairSpec == Init /\ [][NextRunning]_vars /\ WF_vars(Step)

\* only comment.reply fails, and the process is not killed
StepReplyFails ==
    \/ InboxUnread
    \/ HandleCommentMention
    \/ SendReply
    \/ MarkReadReturns
    \/ SearchComments
    \/ HandleScrapedComment
    \/ HandleException
    \/ EndIteration
    \/ Wake

NextReplyFails ==
    \/ \E m \in InboxItems : Receive(m)
    \/ StepReplyFails

SpecReplyFails == Init /\ [][NextReplyFails]_vars /\ WF_vars(StepReplyFails)

----------------------------------------------------------------------------
(* The matching core on its own: rule lists and texts drawn from bounded   *)
(* sets, evaluated as the start-up test of the configuration does          *)

\* what a rule is made of, but for its response
RuleBodies ==
    [comment_regexes : {<<>>, << <<"a">> >>, << <<"B">>, <<"a", "b">> >>},
     ignore_regexes : {<<>>, << <<"b">> >>},
     max_chars : {1, sys_maxsize}]

\* the rule at position k answers "r<k>"
RuleAt(bodies, k) ==
    [search_keys |-> <<>>,
     comment_regexes |-> bodies[k].comment_regexes,
     response |-> "r" \o ToString(k),
     ignore_regexes |-> bodies[k].ignore_regexes,
     max_chars |-> bodies[k].max_chars]

RuleLists ==
    UNION {{[k \in 1..n |-> RuleAt(bodies, k)] : bodies \in [1..n -> RuleBodies]} :
           n \in 0..MaxRules}

InitMatch ==
    /\ canned_responses \in RuleLists
    /\ postfix \in {"", BotPostfix}
    /\ test_comment = <<>>
    /\ test_reply = None
    /\ canned_reply = None
    /\ canned_index = 0
    /\ dry_run = FALSE
    /\ commented_items_file = None
    /\ replied_to_comments = loaded_replied_to_comments(None)
    /\ commented_submissions = loaded_commented_submissions(None)
    /\ first_query_time_utc = 0
    /\ next_query_time_utc = [s \in 1..Len(subreddits) |-> 0]
    /\ unread = <<>>
    /\ arrived = {}
    /\ pc = "test"
    /\ all_unread_messages = <<>>
    /\ comments = <<>>
    /\ sub = 1
    /\ idx = 1
    /\ handled_all_messages = TRUE
    /\ handled_all_comments = TRUE
    /\ reply_calls = NoCalls
    /\ recorded = <<>>
    /\ failed = {}
    /\ handled = {}
    /\ batch_sizes = NoBatches
    /\ e = None
    /\ sleep_s = 0
    /\ restarts = 0

\* the bot itself is not running while the configuration is tested
matchFrame == <<dry_run, ledgerVars, cursorVars, inboxVars, localVars, histVars, excVars,
                restarts>>

\* BotTests.runTest, bot.py:234-239: one fixture's comment is evaluated
RunTest(comment) ==
    /\ pc = "test"
    /\ test_comment' = comment
    /\ test_reply' = ReplyGenerator_get_response(canned_responses, postfix, comment)
    /\ canned_index' = 0
    /\ canned_reply' = None
    /\ pc' = "tested_reply"
    /\ UNCHANGED <<configVars, matchFrame>>

\* CannedResponse.get_response of the k-th rule on its own, bot.py:65
CannedGetResponse(k, comment) ==
    /\ pc = "test"
    /\ test_comment' = comment
    /\ canned_index' = k
    /\ canned_reply' = CannedResponse_get_response(canned_responses[k], comment)
    /\ test_reply' = None
    /\ pc' = "tested_rule"
    /\ UNCHANGED <<configVars, matchFrame>>

NextMatch ==
    \/ \E comment \in Texts : RunTest(comment)
    \/ \E k \in 1..Len(canned_responses) : \E comment \in Texts : CannedGetResponse(k, comment)

SpecMatch == InitMatch /\ [][NextMatch]_vars

----------------------------------------------------------------------------
(* Claims *)

SubmissionIds == {submission_id(c) : c \in CommentIds}

\* run() is between the record and the reply call of _send_reply
Sending == pc \in {"send_mention", "send_comment"}
\* run() is about to handle an item of the page or of the batch
Handling == pc \in {"mention", "comment"}
\* the comment at idx of the loop run() is in
Current == IF pc \in {"mention", "send_mention"} THEN mentions[idx] ELSE comments[idx]

\* the scraped comment c of the batch has been handled, reply call included
HandledComment(c) ==
    \E k \in 1..Len(comments) :
        /\ comments[k] = c
        /\ \/ pc \in {"scrape", "else"}
           \/ pc = "comment" /\ k < idx

\* the mention c of the page has been handled, reply call included
HandledMention(c) ==
    \E k \in 1..Len(mentions) :
        /\ mentions[k] = c
        /\ \/ pc = "mark_read"
           \/ pc = "mention" /\ k < idx

SelfAuthored(c) == author(c) = None \/ author(c) = Some(bot_username)

\* the last n items of a sequence
LastN(items, n) ==
    LET m == IF Len(items) < n THEN Len(items) ELSE n
    IN  [k \in 1..m |-> items[Len(items) - m + k]]

\* the rules of the list that answer the text on their own
Answering(rules, text) ==
    {k \in 1..Len(rules) : CannedResponse_get_response(rules[k], text) # None}

\* C7: ReplyGenerator.get_response gives the response of the first rule, in declared
\* order, that answers the text on its own, with the postfix appended, and never a
\* later rule's; it gives none exactly when no rule answers.
C7_FirstMatchWins ==
    pc = "tested_reply" =>
        LET answering == Answering(canned_responses, test_comment)
        IN  IF answering = {}
            THEN test_reply = None
            ELSE LET first == CHOOSE k \in answering : \A j \in answering : k <= j
                 IN  test_reply = Some(canned_responses[first].response \o postfix)

\* two rules answer the text, and the first one's response came back with the postfix
C7_Witness ==
    /\ pc = "tested_reply"
    /\ Answering(canned_responses, test_comment) = {1, 2}
    /\ postfix = BotPostfix
    /\ test_reply = Some("r1" \o BotPostfix)

\* C8: CannedResponse.get_response gives the rule's response exactly when some
\* comment_regex matches the text, no ignore_regex matches it and the text is at most
\* max_chars long, and none in every other case.
C8_CannedResponseExact ==
    pc = "tested_rule" =>
        LET rule == canned_responses[canned_index]
            matched == \E n \in 1..Len(rule.comment_regexes) :
                          re_search(rule.comment_regexes[n], test_comment)
            ignored == \E n \in 1..Len(rule.ignore_regexes) :
                          re_search(rule.ignore_regexes[n], test_comment)
        IN  /\ canned_reply =
                IF matched /\ ~ignored /\ Len(test_comment) <= rule.max_chars
                THEN Some(rule.response) ELSE None
            /\ rule.comment_regexes = <<>> => canned_reply = None
            /\ ignored => canned_reply = None
            /\ Len(test_comment) > rule.max_chars => canned_reply = None

\* a text of exactly max_chars characters got the response of a rule that has an
\* ignore_regex (which did not match)
C8_Witness ==
    /\ pc = "tested_rule"
    /\ canned_responses[canned_index].ignore_regexes # <<>>
    /\ Len(test_comment) = canned_responses[canned_index].max_chars
    /\ canned_reply = Some(canned_responses[canned_index].response)

\* C1: a comment whose id is in replied_to_comments is never recorded again, and
\* reply() is invoked only between the record of a comment and the end of its
\* _send_reply: no id is twice in the ledger, and a reply goes to the comment
\* whose record is the latest one.
C1_RepliedNeverAgain ==
    [][\A c \in CommentIds :
        /\ contains(replied_to_comments, c) => count(recorded', c) = count(recorded, c)
        /\ count(replied_to_comments', c) <= 1
        /\ reply_calls'[c] # reply_calls[c] =>
              /\ Sending /\ Current = c
              /\ recorded # <<>> /\ recorded[Len(recorded)] = c
              /\ reply_calls'[c] = reply_calls[c] + 1
              /\ ~Sending']_vars

\* a comment was delivered a second time (by the search of the second subreddit,
\* no comment of whose batch is the latest record) while in the ledger with its
\* one reply, and was not recorded again
C1_Witness ==
    /\ sub = 2
    /\ \A d \in CommentIds : HandledComment(d) => recorded[Len(recorded)] # d
    /\ \E c \in CommentIds :
           /\ HandledComment(c)
           /\ contains(replied_to_comments, c)
           /\ reply_calls[c] = 1
           /\ count(recorded, c) = 1

\* C2: no submission id is more than MAX_COMMENTS_PER_SUBMISSION times in
\* commented_submissions, and a comment whose submission id is in it that many
\* times is neither recorded nor replied to.
C2_ThreadCap ==
    [][/\ \A s \in SubmissionIds :
             count(commented_submissions', s) <= MAX_COMMENTS_PER_SUBMISSION
       /\ (Handling /\ count(commented_submissions, submission_id(Current))
                          >= MAX_COMMENTS_PER_SUBMISSION)
             => /\ UNCHANGED <<replied_to_comments, commented_submissions,
                               commented_items_file, reply_calls, recorded>>
                /\ ~Sending']_vars

\* a scraped comment that matched a rule, is by a user and is not in the ledger
\* was passed over because its submission is in the ledger twice
C2_Witness ==
    \E c \in CommentIds :
           /\ HandledComment(c)
           /\ count(commented_submissions, submission_id(c)) = MAX_COMMENTS_PER_SUBMISSION
           /\ ~contains(replied_to_comments, c)
           /\ ~SelfAuthored(c)
           /\ truthy(ReplyGenerator_get_response(canned_responses, postfix, body(c)))
           /\ count(recorded, c) = 0
           /\ reply_calls[c] = 0

\* C3: when reply() is invoked for a comment, the file already holds the comment's
\* id and its submission's id, and the replies of a comment never outnumber its
\* records.
C3_RecordBeforeReply ==
    [][\A c \in CommentIds :
        reply_calls'[c] # reply_calls[c] =>
            /\ commented_items_file # None
            /\ contains(commented_items_file[1].replied_to_comments, c)
            /\ contains(commented_items_file[1].commented_submissions, submission_id(c))
            /\ reply_calls'[c] <= count(recorded, c)]_vars

\* the process was killed between the record and the reply of a comment; started
\* again, it was delivered the comment and passed it over
C3_Witness ==
    /\ restarts = 1 /\ ~dry_run
    /\ \E c \in CommentIds :
           /\ HandledComment(c)
           /\ count(recorded, c) = 1
           /\ reply_calls[c] = 0
           /\ contains(replied_to_comments, c)

\* C4 as stated: once the reply call has raised for a comment, reply() is never
\* invoked for that comment again while the process runs.
C4_NeverInvokedAgain ==
    [][\A c \in failed : reply_calls'[c] = reply_calls[c]]_vars

\* C4 as amended: a comment whose reply call raised is in the ledger when the
\* failure ends the iteration; while its id is in the ledger it is not recorded
\* again, and reply() is invoked for it again only after a new record.
C4_NotRetriedWhileRecorded ==
    [][\A c \in CommentIds :
        /\ (c \in failed' /\ c \notin failed) =>
              /\ contains(replied_to_comments', c)
              /\ contains(commented_items_file'[1].replied_to_comments, c)
              /\ pc' = "except"
        /\ c \in failed =>
              /\ contains(replied_to_comments, c) => count(recorded', c) = count(recorded, c)
              /\ reply_calls'[c] # reply_calls[c] => count(recorded, c) > reply_calls[c]]_vars

\* a page with a mention whose reply call raised (before mark_read) was fetched
\* again, and handled to its end without a second reply to the mention
C4_Witness ==
    \E m \in failed :
        /\ HandledMention(m)
        /\ reply_calls[m] = 1
        /\ count(recorded, m) = 1

\* C5: handling a comment whose author is absent or is the bot itself changes
\* neither the ledger nor its file and leads to no reply, whatever its text; such a
\* comment is never recorded and never replied to.
C5_NoSelfReply ==
    [][/\ (Handling /\ SelfAuthored(Current))
             => /\ UNCHANGED <<replied_to_comments, commented_submissions,
                               commented_items_file, reply_calls, recorded>>
                /\ ~Sending'
       /\ \A c \in CommentIds :
             SelfAuthored(c) => reply_calls'[c] = 0 /\ count(recorded', c) = 0]_vars

\* the bot's own comment came as a mention and was marked read, and a scraped
\* comment of a deleted account that matches a rule was handled
C5_Witness ==
    /\ \E m \in arrived : isComment(m) /\ author(m) = Some(bot_username)
                          /\ ~contains(unread, m)
    /\ \E c \in CommentIds :
           /\ HandledComment(c)
           /\ author(c) = None
           /\ truthy(ReplyGenerator_get_response(canned_responses, postfix, body(c)))

\* C6: with dry_run set, reply() is never invoked (so it never raises), for
\* scraped comments and for mentions.
C6_DryRunNeverReplies ==
    dry_run => reply_calls = NoCalls /\ failed = {}

\* in a dry run a mention and a scraped comment were recorded, and run() is past
\* the place of the reply call of the later one
C6_Witness ==
    /\ dry_run
    /\ ~Sending
    /\ \E m \in MentionIds : contains(recorded, m) /\ contains(replied_to_comments, m)
    /\ \E c \in CommentIds \ MentionIds : contains(recorded, c)
    /\ commented_items_file # None

\* C9: both deques hold at most maxlen entries and are the latest maxlen recorded
\* ids, in the order of the records.
C9_BoundedFifo ==
    /\ Len(replied_to_comments) <= maxlen
    /\ Len(commented_submissions) <= maxlen
    /\ replied_to_comments = LastN(recorded, maxlen)
    /\ commented_submissions =
          LastN([k \in 1..Len(recorded) |-> submission_id(recorded[k])], maxlen)

\* one record more than maxlen: the oldest id has left the ledger, and the
\* comment can be replied to again
C9_Witness ==
    /\ Len(recorded) = maxlen + 1
    /\ ~contains(replied_to_comments, recorded[1])
    /\ can_reply_to_comment(recorded[1], replied_to_comments, commented_submissions)

\* C10: the file holds the two deques as they are in memory, oldest first (no file:
\* both are empty), and loading the file gives the two deques back.
C10_FileRoundTrip ==
    /\ commented_items_file = None =>
          replied_to_comments = <<>> /\ commented_submissions = <<>>
    /\ commented_items_file # None =>
          /\ commented_items_file[1].replied_to_comments = replied_to_comments
          /\ commented_items_file[1].commented_submissions = commented_submissions
    /\ loaded_replied_to_comments(commented_items_file) = replied_to_comments
    /\ loaded_commented_submissions(commented_items_file) = commented_submissions

\* a restarted process loaded a full ledger from the file
C10_Witness ==
    /\ restarts = 1
    /\ pc = "run"
    /\ Len(replied_to_comments) = maxlen
    /\ commented_items_file # None

C12_SleepOnlyWhenIdle ==
    [][/\ pc # "sleep" /\ pc' = "sleep" =>
            /\ pc = "else"
            /\ sleep_s' = 30
            /\ Len(all_unread_messages) < max_messages_per_request
            /\ \A s \in 1..Len(subreddits) : batch_sizes[s] < max_comments_per_request
       /\ pc = "else" /\ restarts' = restarts =>
            IF \/ Len(all_unread_messages) = max_messages_per_request
               \/ \E s \in 1..Len(subreddits) : batch_sizes[s] = max_comments_per_request
            THEN pc' = "run" /\ sleep_s' = 0
            ELSE pc' = "sleep"]_vars

\* the bot sleeps its 30 s after an iteration that found nothing new, every
\* comment there is being behind the cursors
C12_Witness ==
    /\ pc = "sleep"
    /\ sleep_s = 30
    /\ recorded # <<>>
    /\ next_query_time_utc[1] = MaxTime
    /\ \A c \in search_matches(search_query(canned_responses), subreddits[2], 0) :
          next_query_time_utc[2] >= created_utc(c)

\* C13: while the process runs, no step makes the cursor of a subreddit smaller -
\* not a batch (the search gives only comments created after the cursor, the
\* latest last), not a failure, not the end of an iteration.
C13_CursorNeverDecreases ==
    [][restarts' = restarts =>
          \A s \in 1..Len(subreddits) : next_query_time_utc'[s] >= next_query_time_utc[s]]_vars

\* a reply call has raised, and the cursor of the first subreddit has gone on
\* to the latest comment
C13_Witness ==
    /\ restarts = 0
    /\ failed # {}
    /\ next_query_time_utc[1] = MaxTime
    /\ next_query_time_utc[2] > first_query_time_utc

\* the comments the search of subreddit s can give to this process: those that
\* match the query and were created after the first query time
Wanted(s) == search_matches(search_query(canned_responses), subreddits[s], first_query_time_utc)

\* C14: every comment of a watched subreddit that matches the query and was
\* created after the first query time is passed to _handle_scraped_comment
\* exactly once: no step passes a comment that was passed before for that
\* subreddit, and between iterations no comment the cursor has gone past is
\* left that was never passed.
C14_ExactlyOnce ==
    [][/\ pc = "comment" /\ restarts' = restarts => <<sub, comments[idx]>> \notin handled
       /\ pc' \in {"run", "sleep", "ratelimit_sleep"} =>
             \A s \in 1..Len(subreddits) : \A c \in Wanted(s)' :
                 created_utc(c) <= next_query_time_utc'[s] => <<s, c>> \in handled']_vars

\* C15: the cursor of a subreddit changes only in the step that ends the
\* handling of a non-empty batch of that subreddit, after the last comment of
\* the batch has been handled, and becomes the creation time of that comment; a
\* search that gives an empty batch changes no cursor.
C15_AdvancedAfterBatch ==
    [][restarts' = restarts =>
          /\ \A s \in 1..Len(subreddits) :
                next_query_time_utc'[s] # next_query_time_utc[s] =>
                    /\ s = sub
                    /\ pc \in {"comment", "send_comment"}
                    /\ idx = Len(comments)
                    /\ pc' \in {"scrape", "else"}
                    /\ next_query_time_utc'[s] = created_utc(comments[Len(comments)])
          /\ pc = "scrape" /\ comments' = <<>> => next_query_time_utc' = next_query_time_utc]_vars

\* the words of part stand in the message, one after the other
Contains(message, part) ==
    \E k \in 1..Len(message) :
        /\ k + Len(part) - 1 <= Len(message)
        /\ SubSeq(message, k, k + Len(part) - 1) = part

\* C16: when the message of the failure run() has caught contains
\* 'try again in N minutes', run() sleeps N * 60 seconds and then starts the
\* next iteration; when it does not, the next iteration is started at once,
\* with no sleep of either kind.
C16_RateLimitSleep ==
    [][restarts' = restarts =>
          /\ pc = "except" =>
                IF \E n \in 0..MaxMinutes : Contains(str(e), RateLimited(n))
                THEN \E n \in 0..MaxMinutes :
                        /\ Contains(str(e), RateLimited(n))
                        /\ pc' = "ratelimit_sleep"
                        /\ sleep_s' = n * 60
                ELSE pc' = "run" /\ sleep_s' = 0
          /\ pc = "ratelimit_sleep" => pc' = "run" /\ sleep_s' = 0]_vars

\* a reply call has failed with a message that asks for MaxMinutes minutes, and
\* run() sleeps them
C16_Witness ==
    /\ pc = "ratelimit_sleep"
    /\ sleep_s = MaxMinutes * 60
    /\ failed # {}
    /\ restarts = 0

\* no rule of the configuration declares a search key
NoSearchKeys == \A k \in 1..Len(canned_responses) : canned_responses[k].search_keys = <<>>

\* C17: when no rule declares a search key, run() never searches for comments
\* and no cursor changes: an iteration is the inbox step alone, after which
\* run() sleeps if and only if the inbox page was not full.
C17_NoQueryNoScrape ==
    [][NoSearchKeys /\ restarts' = restarts =>
          /\ pc' \notin {"scrape", "comment", "send_comment"}
          /\ next_query_time_utc' = next_query_time_utc
          /\ handled' = {}
          /\ batch_sizes' = NoBatches
          /\ pc = "mark_read" => pc' \in {"else", "except"}
          /\ pc = "else" =>
                IF Len(all_unread_messages) < max_messages_per_request
                THEN pc' = "sleep" /\ sleep_s' = 30
                ELSE pc' = "run" /\ sleep_s' = 0]_vars

\* without search keys the bot has answered a mention, has read its whole inbox
\* and sleeps
C17_Witness ==
    /\ NoSearchKeys
    /\ pc = "sleep"
    /\ arrived = InboxItems
    /\ unread = <<>>
    /\ recorded # <<>>
    /\ restarts = 0

\* run() is in the inbox step
InInboxStep == pc \in {"mention", "send_mention", "mark_read"}

\* the items of a sequence
Range(items) == {items[k] : k \in 1..Len(items)}

ResponseFor(c) ==
    IF pc = "mention"
    THEN get_comment_mention_response(BotMentionReply, postfix, body(c))
    ELSE ReplyGenerator_get_response(canned_responses, postfix, body(c))

\* one of the reasons for which no reply is made to the comment
Rejected(c) ==
    \/ ResponseFor(c) = None
    \/ SelfAuthored(c)
    \/ c \in Range(replied_to_comments)
    \/ Cardinality({k \in 1..Len(commented_submissions) :
                       commented_submissions[k] = submission_id(c)})
          >= MAX_COMMENTS_PER_SUBMISSION

\* C19: a handler that rejects its comment - no rule gives a response, the
\* author is absent or the bot, the id is in the ledger, or the submission is in
\* it MAX_COMMENTS_PER_SUBMISSION times - leaves both deques and the file as
\* they are; the ledger changes only where a handler accepts its comment, and
\* what follows is the reply call for that comment unless dry_run is set.
C19_RejectionLeavesLedger ==
    [][restarts' = restarts =>
          /\ Handling /\ Rejected(Current) => UNCHANGED <<ledgerVars, recorded>>
          /\ ~UNCHANGED ledgerVars =>
                /\ Handling /\ ~Rejected(Current)
                /\ Sending' /\ Current' = Current
                /\ recorded' = Append(recorded, Current)
          /\ Sending /\ ~dry_run /\ reply_calls[Current] < MaxCalls =>
                reply_calls' = [reply_calls EXCEPT ![Current] = @ + 1]]_vars

\* a scraped comment no rule answers has been handled: it was not recorded,
\* while others before it were
C19_Witness ==
    \E c \in CommentIds :
        /\ HandledComment(c)
        /\ ReplyGenerator_get_response(canned_responses, postfix, body(c)) = None
        /\ c \notin Range(recorded)
        /\ recorded # <<>>
        /\ commented_items_file # None

\* C20 as stated: when only reply calls fail and the process keeps running, a
\* mention whose reply call raises does not keep the inbox from being read: the
\* call raises at most once for a mention, every item a fetch has returned is
\* marked read in the end, and the comment search is reached again and again
\* (when there is a query to search for).
C20_FailsAtMostOnce ==
    /\ [][pc = "send_mention" /\ pc' = "except" => Current \notin failed]_vars
    /\ \A m \in InboxItems :
          (m \in Range(all_unread_messages)) ~> (m \notin Range(unread))
    /\ []<>(NoSearchKeys \/ pc = "scrape")

\* the ids recorded before the latest record
RecordedBefore == SubSeq(recorded, 1, Len(recorded) - 1)

\* C20, amended: when only reply calls fail and the process keeps running,
\* every item a fetch has returned is marked read in the end and the comment
\* search is reached again and again (when there is a query to search for); the
\* reply call for a mention is made, and can raise, only when the mention is
\* not among the last maxlen ids recorded before - so it raises a second time
\* for a mention only after the id has left the ledger.
C20_InboxNotBlocked ==
    /\ [][pc = "send_mention" /\ pc' = "except" =>
             Current \notin Range(LastN(RecordedBefore, maxlen))]_vars
    /\ \A m \in InboxItems :
          (m \in Range(all_unread_messages)) ~> (m \notin Range(unread))
    /\ []<>(NoSearchKeys \/ pc = "scrape")

\* the reply call for a mention has raised; the mention has been marked read
\* all the same, and run() is at the comment search
C20_Witness ==
    /\ pc = "scrape"
    /\ \E m \in MentionIds :
          /\ m \in failed
          /\ m \in Range(all_unread_messages)
          /\ m \notin Range(unread)

====
